---------------------------- MODULE Spec2Model ----------------------------
(***************************************************************************)
(* A model of the ghci session handle of src/src/lib.rs: one Ghci value,   *)
(* the ghci child process it owns, and the three pipes between them.       *)
(*                                                                         *)
(* The session side is translated from Ghci::eval, Ghci::set_timeout,      *)
(* Ghci::close and Drop for Ghci (specifications Spec and FairSpec, which  *)
(* start from the value a successful Ghci::new returns) and from Ghci::new *)
(* with clear_blocking_reader_until (specification NewSpec, which starts   *)
(* after the spawn).  eval is cut at the points where the                  *)
(* child can act between two of its system calls: the write of the framed  *)
(* snippet, the poll, the read of stderr and the read of stdout.           *)
(*                                                                         *)
(* The child side is the environment: ghci reads a framed snippet from its *)
(* standard input, writes the snippet's output byte by byte to its         *)
(* standard output and standard error, then writes the prompt; it may exit *)
(* at any moment, which closes its ends of the pipes.                      *)
(*                                                                         *)
(* A byte is a record [c |-> character, n |-> number of the eval call the  *)
(* child was answering when it wrote it]; n is history, the code never     *)
(* reads it.                                                               *)
(***************************************************************************)
EXTENDS Integers, Sequences, FiniteSets, TLC

(***************************************************************************)
(* Bounds of the model.                                                    *)
(***************************************************************************)
\* eval calls made on the session
MaxEvals == 2
\* milliseconds counted since the start of an eval call (saturating)
MaxElapsed == 2

(***************************************************************************)
(* Program constants.                                                      *)
(***************************************************************************)
\* const PROMPT: &str = "__ghci_rust_prompt__>\n";
PROMPT ==
    << "_", "_", "g", "h", "c", "i", "_", "r", "u", "s", "t", "_",
       "p", "r", "o", "m", "p", "t", "_", "_", ">", "\n" >>

\* Option<T> as a sequence of at most one value
None == << >>
Some(d) == << d >>

\* core::time::Duration: whole seconds and the milliseconds of the fraction
Duration(secs, millis) == [secs |-> secs, millis |-> millis]

\* i32::MAX, the largest timeout poll takes, is 2147483 s and 647 ms
I32MaxSecs == 2147483
I32MaxMillis == 647

\* Duration::as_millis().try_into::<i32>() succeeds
FitsI32(d) ==
    \/ d.secs < I32MaxSecs
    \/ d.secs = I32MaxSecs /\ d.millis <= I32MaxMillis

\* Duration::as_millis, for a duration that fits
as_millis(d) == d.secs * 1000 + d.millis

\* the durations a caller passes to set_timeout
Durations == { Duration(0, 0), Duration(0, 1), Duration(I32MaxSecs + 1, 0) }

(***************************************************************************)
(* Bytes and text.                                                         *)
(***************************************************************************)
B(c, n) == [c |-> c, n |-> n]

\* the characters of a sequence of bytes
Chars(s) == [i \in 1..Len(s) |-> s[i].c]

\* the two bytes of a two-byte UTF-8 character (U+00E9)
Utf8Lead == "C3"
Utf8Cont == "A9"

\* String::from_utf8 on what one read_available call returned
RECURSIVE Utf8Valid(_)
Utf8Valid(s) ==
    IF s = << >> THEN TRUE
    ELSE IF Head(s) = Utf8Lead
         THEN Len(s) >= 2 /\ s[2] = Utf8Cont /\ Utf8Valid(SubSeq(s, 3, Len(s)))
         ELSE Head(s) # Utf8Cont /\ Utf8Valid(Tail(s))

\* str::ends_with
ends_with(s, pat) ==
    /\ Len(s) >= Len(pat)
    /\ SubSeq(s, Len(s) - Len(pat) + 1, Len(s)) = pat

\* String::truncate
truncate(s, len) == SubSeq(s, 1, len)

\* pat occurs in s
Contains(s, pat) ==
    \E i \in 0..(Len(s) - Len(pat)) : SubSeq(s, i + 1, i + Len(pat)) = pat

(***************************************************************************)
(* Snippets.  A snippet is known by what ghci writes when it evaluates it: *)
(* a sequence of writes <<stream, characters>>.  The prompt that ghci      *)
(* writes after it is not part of the snippet.                             *)
(***************************************************************************)
Snippets ==
    { \* putStrLn on stdout
      << <<"out", <<"a">> >> >>,
      \* stdout, stderr, stdout (the example of eval's documentation)
      << <<"out", <<"a">> >>, <<"err", <<"e">> >>, <<"out", <<"b">> >> >>,
      \* a two-byte character that reaches the pipe in two writes
      << <<"out", <<Utf8Lead>> >>, <<"out", <<Utf8Cont>> >> >>,
      \* the text of the prompt itself, then more
      << <<"out", PROMPT>>, <<"out", <<"b">> >> >> }

\* the characters the snippet writes on one stream
RECURSIVE StreamOf(_, _)
StreamOf(sn, st) ==
    IF sn = << >> THEN << >>
    ELSE IF Head(sn)[1] = st
         THEN Head(sn)[2] \o StreamOf(Tail(sn), st)
         ELSE StreamOf(Tail(sn), st)

\* where ghci's write of the prompt may be cut in two (0: one write)
PromptSplits == {0, 1, Len(PROMPT) - 1}

VARIABLES
    sess,        \* the Ghci value: Ready, in close/drop, or gone
    pc,          \* position of the thread inside eval
    timeout,     \* Ghci.timeout
    timeoutArg,  \* eval's local timeout, the argument of poll
    stdout,      \* eval's local stdout accumulator
    stderr,      \* eval's local stderr accumulator
    revents,     \* what the last poll reported for <<stderr_fd, stdout_fd>>
    result,      \* what the latest eval call returned (none while it runs)
    evalNo,      \* number of eval calls made
    input,       \* the snippet of the latest eval call
    childStatus, \* Child.status, the exit status std caches once it has waited
    closeResult, \* what close returned, and whether the child had exited then
    proc,        \* the ghci process as the OS sees it
    killSent,    \* SIGKILL was sent to the process
    ghci,        \* what ghci still has to write, and for which eval call
    stdin,       \* pipe session -> child, framed snippets
    outPipe,     \* pipe child stdout -> session
    errPipe,     \* pipe child stderr -> session
    waited,      \* milliseconds the current poll has been blocked
    elapsed,     \* milliseconds since the eval call started (saturating)
    markerAt,    \* value of elapsed when ghci finished writing this call's prompt
    outSince,    \* what ghci wrote to stdout after the latest Timeout was returned
    history,     \* of the calls so far: all returned Ok, one returned Timeout,
                 \* no snippet printed the text of the prompt
    buffer       \* buffer[..end] of the clear_blocking_reader_until in progress

vars == << sess, pc, timeout, timeoutArg, stdout, stderr, revents, result,
           evalNo, input, childStatus, closeResult, proc, killSent, ghci,
           stdin, outPipe, errPipe, waited, elapsed, markerAt, outSince,
           history, buffer >>

sessVars == << sess, childStatus, closeResult, killSent >>
evalVars == << pc, timeoutArg, stdout, stderr, revents, result, evalNo, input, history >>
childVars == << ghci, stdin, outPipe, errPipe >>
timeVars == << waited, elapsed >>
ghostVars == << markerAt, outSince >>
gateVars == << buffer >>

NoResult == [res |-> "none", stdout |-> << >>, stderr |-> << >>, n |-> 0]
NoEvents == [err |-> FALSE, out |-> FALSE]

Init ==
    /\ sess = "Ready"
    /\ pc = "idle"
    /\ timeout = None
    /\ timeoutArg = -1
    /\ stdout = << >>
    /\ stderr = << >>
    /\ revents = NoEvents
    /\ result = NoResult
    /\ evalNo = 0
    /\ input = << >>
    /\ childStatus = "None"
    /\ closeResult = [res |-> "none", exited |-> FALSE]
    /\ proc = "running"
    /\ killSent = FALSE
    /\ ghci = [todo |-> << >>, n |-> 0]
    /\ stdin = << >>
    /\ outPipe = << >>
    /\ errPipe = << >>
    /\ waited = 0
    /\ elapsed = 0
    /\ markerAt = -1
    /\ outSince = << >>
    /\ history = [allOk |-> TRUE, timedOut |-> FALSE, plain |-> TRUE]
    /\ buffer = << >>


(***************************************************************************)
(* The operating system's view of the pipes.                               *)
(***************************************************************************)
\* the child's ends of the pipes are closed once the process is gone
Hup == proc # "running"

\* poll(2) reports a descriptor (POLLIN, or POLLHUP when the writer is gone)
Ready(pipe) == pipe # << >> \/ Hup

(***************************************************************************)
(* Ghci::eval                                                              *)
(***************************************************************************)
\* PollTimeout with a bug: no timeout is taken for a timeout of zero
PollTimeoutNoneIsZero(t) ==
    IF t = None THEN 0
    ELSE IF FitsI32(t[1]) THEN as_millis(t[1]) ELSE -1

\* self.timeout.and_then(|d| d.as_millis().try_into().ok()).unwrap_or(-1)
PollTimeout(t) ==
    IF t = None THEN -1
    ELSE IF FitsI32(t[1]) THEN as_millis(t[1]) ELSE -1

\* Frame with a bug: the multi-line block is not closed
FrameLeftOpen(sn, n) == [begin |-> ":{\n", input |-> sn, end |-> "\n", n |-> n]

\* the three write_all calls: ":{\n", the snippet, "\n:}\n"
Frame(sn, n) == [begin |-> ":{\n", input |-> sn, end |-> "\n:}\n", n |-> n]

\* eval returns: its locals are gone, the caller holds the Result
Return(res, out, err) ==
    /\ result' = [res |-> res, stdout |-> out, stderr |-> err, n |-> evalNo]
    /\ pc' = "idle"
    /\ stdout' = << >>
    /\ stderr' = << >>
    /\ revents' = NoEvents
    /\ history' = [history EXCEPT !.allOk = history.allOk /\ res = "Ok",
                                  !.timedOut = history.timedOut \/ res = "Timeout"]

\* lines 165-176: write the framed snippet, set up the locals
Eval(sn) ==
    /\ sess = "Ready"
    /\ pc = "idle"
    /\ evalNo < MaxEvals
    /\ evalNo' = evalNo + 1
    /\ input' = sn
    /\ markerAt' = -1
    /\ waited' = 0
    /\ elapsed' = 0
    /\ timeoutArg' = PollTimeout(timeout)
    /\ LET h == [history EXCEPT
                   !.plain = history.plain /\ ~ Contains(StreamOf(sn, "out"), PROMPT)]
       IN  IF Hup
           THEN \* the first write_all fails with EPIPE: IOError
                /\ result' = [res |-> "IOError", stdout |-> << >>,
                              stderr |-> << >>, n |-> evalNo + 1]
                /\ history' = [h EXCEPT !.allOk = FALSE]
                /\ UNCHANGED << pc, stdout, stderr, revents, stdin >>
           ELSE /\ stdin' = Append(stdin, Frame(sn, evalNo + 1))
                /\ pc' = "poll"
                /\ stdout' = << >>
                /\ stderr' = << >>
                /\ result' = NoResult
                /\ history' = h
                /\ UNCHANGED revents
    /\ UNCHANGED << gateVars, sessVars, timeout, proc, ghci, outPipe, errPipe, outSince >>

\* TimeoutDue with a bug: the deadline alone decides, output that is
\* waiting on stdout is not looked at
TimeoutDueIgnoresOutput ==
    /\ pc = "poll"
    /\ timeoutArg >= 0
    /\ waited >= timeoutArg
    /\ ~ Ready(errPipe)

\* the timeout of the poll in progress has expired with nothing to report
TimeoutDue ==
    /\ pc = "poll"
    /\ timeoutArg >= 0
    /\ waited >= timeoutArg
    /\ ~ Ready(errPipe)
    /\ ~ Ready(outPipe)

\* AfterPoll with a bug: stderr is not read, whatever poll reported
AfterPollSkipsStderr(ev) == "readOut"

\* where eval goes after a poll that reported something
AfterPoll(ev) == IF ev.err THEN "readErr" ELSE "readOut"

\* lines 178-187: poll returns with at least one descriptor reported
PollReady ==
    /\ pc = "poll"
    /\ Ready(errPipe) \/ Ready(outPipe)
    /\ revents' = [err |-> Ready(errPipe), out |-> Ready(outPipe)]
    /\ pc' = AfterPoll(revents')
    /\ UNCHANGED << gateVars, sessVars, timeout, timeoutArg, stdout, stderr, result,
                    evalNo, input, history, proc, childVars, timeVars, ghostVars >>

\* lines 183-187: poll returns 0, eval returns Timeout
PollZero ==
    /\ TimeoutDue
    /\ Return("Timeout", << >>, << >>)
    /\ outSince' = << >>
    /\ UNCHANGED << gateVars, sessVars, timeout, timeoutArg, evalNo, input, proc,
                    childVars, timeVars, markerAt >>

\* line 183: poll fails (EINTR), eval returns PollError
PollFail ==
    /\ pc = "poll"
    /\ Return("PollError", << >>, << >>)
    /\ UNCHANGED << gateVars, sessVars, timeout, timeoutArg, evalNo, input, proc,
                    childVars, timeVars, ghostVars >>

\* NonBlockingReader::read_available_to_string: everything in the pipe is
\* taken; it is appended to buf when it is valid UTF-8, else InvalidData
read_available_to_string(pipe, buf) ==
    IF Utf8Valid(Chars(pipe))
    THEN [ok |-> TRUE, buf |-> buf \o pipe]
    ELSE [ok |-> FALSE, buf |-> buf]

\* lines 189-191
ReadErr ==
    /\ pc = "readErr"
    /\ LET r == read_available_to_string(errPipe, stderr) IN
       /\ errPipe' = << >>
       /\ IF r.ok
          THEN /\ stderr' = r.buf
               /\ pc' = "readOut"
               /\ UNCHANGED << stdout, revents, result, history >>
          ELSE Return("IOError", << >>, << >>)
    /\ UNCHANGED << gateVars, sessVars, timeout, timeoutArg, evalNo, input, proc, ghci,
                    stdin, outPipe, timeVars, ghostVars >>

\* SeesPrompt with a bug: the prompt anywhere in the accumulator ends the call
SeesPromptAnywhere(buf) == Contains(Chars(buf), PROMPT)

\* line 196: the accumulator ends with the prompt
SeesPrompt(buf) == ends_with(Chars(buf), PROMPT)

\* lines 193-203
ReadOut ==
    /\ pc = "readOut"
    /\ IF revents.out
       THEN LET r == read_available_to_string(outPipe, stdout) IN
            /\ outPipe' = << >>
            /\ IF ~ r.ok
               THEN Return("IOError", << >>, << >>)
               ELSE IF SeesPrompt(r.buf)
                    THEN Return("Ok", truncate(r.buf, Len(r.buf) - Len(PROMPT)),
                                stderr)
                    ELSE /\ stdout' = r.buf
                         /\ pc' = "poll"
                         /\ revents' = NoEvents
                         /\ UNCHANGED << stderr, result, history >>
            /\ waited' = 0
       ELSE /\ pc' = "poll"
            /\ waited' = 0
            /\ revents' = NoEvents
            /\ UNCHANGED << outPipe, stdout, stderr, result, history >>
    /\ UNCHANGED << gateVars, sessVars, timeout, timeoutArg, evalNo, input, proc, ghci,
                    stdin, errPipe, elapsed, ghostVars >>

(***************************************************************************)
(* Ghci::set_timeout                                                       *)
(***************************************************************************)
\* set_timeout with a bug: the new value is also sent to the child
set_timeoutWritesChild(t) ==
    /\ sess = "Ready"
    /\ pc = "idle"
    /\ evalNo < MaxEvals
    /\ timeout' = t
    /\ stdin' = Append(stdin, Frame(<< >>, evalNo))
    /\ UNCHANGED << gateVars, sessVars, evalVars, proc, ghci, outPipe, errPipe,
                    timeVars, ghostVars >>

\* line 233
set_timeout(t) ==
    /\ sess = "Ready"
    /\ pc = "idle"
    /\ evalNo < MaxEvals
    /\ timeout' = t
    /\ UNCHANGED << gateVars, sessVars, evalVars, proc, childVars, timeVars, ghostVars >>

(***************************************************************************)
(* std::process::Child, as Ghci::close and Drop use it.  The process is    *)
(* running, a zombie (exited, not yet waited for), reaped (this handle has *)
(* waited for it) or stolen (exited and waited for by someone else in the  *)
(* parent, or discarded by the kernel because SIGCHLD is ignored).         *)
(***************************************************************************)
\* Child::kill: refuses a handle that has already been waited for, else
\* sends SIGKILL, which fails only when the process no longer exists
kill ==
    IF childStatus = "Some" THEN "InvalidInput"
    ELSE IF proc = "stolen" THEN "ESRCH"
    ELSE "Ok"

\* Child::try_wait: the cached status, else waitpid(WNOHANG)
try_wait ==
    IF childStatus = "Some" THEN "Some"
    ELSE IF proc = "running" THEN "None"
    ELSE IF proc = "zombie" THEN "Some"
    ELSE "ECHILD"

\* line 289: self.child.kill()?, after which self goes out of scope
close ==
    /\ sess = "Ready"
    /\ pc = "idle"
    /\ closeResult' = [res |-> kill, exited |-> proc # "running"]
    /\ killSent' = (killSent \/ kill = "Ok")
    /\ sess' = "dropping"
    /\ UNCHANGED << gateVars, childStatus, evalVars, timeout, proc, childVars, timeVars,
                    ghostVars >>

\* DropNext with a bug: a child that is still running is left alone
DropNextForgetsKill(w) ==
    IF w = "ECHILD" THEN "panicked" ELSE "gone"

\* line 295: a failed try_wait panics in unwrap, an exited child needs no
\* kill, a running one goes on to line 296
DropNext(w) ==
    IF w = "ECHILD" THEN "panicked"
    ELSE IF w = "None" THEN "killing"
    ELSE "gone"

\* the Ghci value is gone
Discarded == sess \in {"gone", "panicked"}

\* when drop ends, by return or by panic, the fields are dropped: the
\* parent's ends of the three pipes are closed and what they held is lost
DropFields(next) ==
    IF next \in {"gone", "panicked"}
    THEN stdin' = << >> /\ outPipe' = << >> /\ errPipe' = << >>
    ELSE UNCHANGED << stdin, outPipe, errPipe >>

\* line 295
drop ==
    /\ \/ sess = "Ready" /\ pc = "idle"
       \/ sess = "dropping"
    /\ sess' = DropNext(try_wait)
    /\ DropFields(sess')
    /\ childStatus' = IF try_wait = "Some" THEN "Some" ELSE childStatus
    /\ proc' = IF try_wait = "Some" THEN "reaped" ELSE proc
    /\ UNCHANGED << gateVars, closeResult, killSent, evalVars, timeout, ghci,
                    timeVars, ghostVars >>

\* line 296: a failed kill panics in unwrap
drop_kill ==
    /\ sess = "killing"
    /\ killSent' = (killSent \/ kill = "Ok")
    /\ sess' = IF kill = "Ok" THEN "gone" ELSE "panicked"
    /\ DropFields(sess')
    /\ UNCHANGED << gateVars, childStatus, closeResult, evalVars, timeout, proc,
                    ghci, timeVars, ghostVars >>

(***************************************************************************)
(* The ghci process.                                                       *)
(***************************************************************************)
\* what ghci writes for a snippet: its output, then the prompt on stdout,
\* in one write or cut in two after k characters
Response(sn, k) ==
    IF k = 0
    THEN sn \o << <<"out", PROMPT>> >>
    ELSE sn \o << <<"out", SubSeq(PROMPT, 1, k)>>,
                  <<"out", SubSeq(PROMPT, k + 1, Len(PROMPT))>> >>

\* ghci, at its prompt, reads the next framed snippet
GhciRead ==
    /\ proc = "running"
    /\ ~ Discarded
    /\ ghci.todo = << >>
    /\ stdin # << >>
    /\ \E k \in PromptSplits :
         ghci' = [todo |-> Response(Head(stdin).input, k), n |-> Head(stdin).n]
    /\ stdin' = Tail(stdin)
    /\ UNCHANGED << gateVars, sessVars, evalVars, timeout, proc, outPipe, errPipe,
                    timeVars, ghostVars >>

\* ghci does its next write (it can, as long as the parent holds the pipes)
GhciWrite ==
    /\ proc = "running"
    /\ ~ Discarded
    /\ ghci.todo # << >>
    /\ LET w == Head(ghci.todo)
           bs == [i \in 1..Len(w[2]) |-> B(w[2][i], ghci.n)]
       IN  /\ outPipe' = IF w[1] = "out" THEN outPipe \o bs ELSE outPipe
           /\ errPipe' = IF w[1] = "err" THEN errPipe \o bs ELSE errPipe
    /\ ghci' = [ghci EXCEPT !.todo = Tail(ghci.todo)]
    /\ markerAt' = IF Len(ghci.todo) = 1 /\ ghci.n = evalNo /\ pc # "idle"
                   THEN elapsed ELSE markerAt
    /\ outSince' = IF history.timedOut /\ Head(ghci.todo)[1] = "out"
                   THEN outSince \o Head(ghci.todo)[2] ELSE outSince
    /\ UNCHANGED << gateVars, sessVars, evalVars, timeout, proc, stdin, timeVars >>

\* the process ends (a crash, :quit, or the SIGKILL it was sent)
GhciExit ==
    /\ proc = "running"
    /\ proc' = "zombie"
    /\ UNCHANGED << gateVars, sessVars, evalVars, timeout, childVars, timeVars, ghostVars >>

\* the exited process is waited for by someone other than this handle
OtherWait ==
    /\ proc = "zombie"
    /\ proc' = "stolen"
    /\ UNCHANGED << gateVars, sessVars, evalVars, timeout, childVars, timeVars, ghostVars >>

(***************************************************************************)
(* Time: a millisecond passes while the thread is blocked in poll.  Time   *)
(* is counted only for a poll that has a timeout.                          *)
(***************************************************************************)
Tick ==
    /\ pc = "poll"
    /\ timeoutArg >= 0
    /\ ~ TimeoutDue
    /\ ~ (Ready(errPipe) \/ Ready(outPipe))
    /\ waited < MaxElapsed \/ elapsed < MaxElapsed
    /\ waited' = IF waited < MaxElapsed THEN waited + 1 ELSE waited
    /\ elapsed' = IF elapsed < MaxElapsed THEN elapsed + 1 ELSE elapsed
    /\ UNCHANGED << gateVars, sessVars, evalVars, timeout, proc, childVars, ghostVars >>

Next ==
    \/ \E sn \in Snippets : Eval(sn)
    \/ PollReady
    \/ PollZero
    \/ PollFail
    \/ ReadErr
    \/ ReadOut
    \/ \E t \in {None} \cup {Some(d) : d \in Durations} : set_timeout(t)
    \/ close
    \/ drop
    \/ drop_kill
    \/ GhciRead
    \/ GhciWrite
    \/ GhciExit
    \/ OtherWait
    \/ Tick

Spec == Init /\ [][Next]_vars

(***************************************************************************)
(* One eval call under fair scheduling: the thread runs when it can, the   *)
(* kernel ends a poll whose timeout has expired, ghci runs while it is     *)
(* alive, time passes.  Nothing forces ghci to exit or a poll to fail.     *)
(***************************************************************************)
EvalStep == PollReady \/ PollZero \/ ReadErr \/ ReadOut

GhciStep == GhciRead \/ GhciWrite

FairNext ==
    \/ \E sn \in Snippets : evalNo = 0 /\ Eval(sn)
    \/ PollReady
    \/ PollZero
    \/ PollFail
    \/ ReadErr
    \/ ReadOut
    \/ \E t \in {None} \cup {Some(d) : d \in Durations} :
         evalNo = 0 /\ set_timeout(t)
    \/ GhciRead
    \/ GhciWrite
    \/ GhciExit
    \/ Tick

FairSpec ==
    /\ Init
    /\ [][FairNext]_vars
    /\ WF_vars(EvalStep)
    /\ WF_vars(GhciStep)
    /\ WF_vars(Tick)

(***************************************************************************)
(* Ghci::new, from the spawn of the child to the value it returns.  The    *)
(* thread is in one of the three clear_blocking_reader_until calls         *)
(* (gate1, gate2, gate3), about to write one of the two commands           *)
(* (write1, write2), or about to build the value (wrap).  The child        *)
(* writes its banner and its default prompt, then answers each command     *)
(* with the prompt it was told to use.                                     *)
(***************************************************************************)
\* let mut buffer = [0; 1024];
BufferSize == 1024

\* n bytes of text without any prompt in it
Fill(n) == [i \in 1..n |-> "x"]

\* the prompt ghci starts with, as far as line 103 looks at it
DefaultPrompt == << ">", " " >>

\* what ghci writes at startup, as a sequence of writes: a short banner, a
\* banner whose prompt reaches the pipe in two writes, a banner with a
\* line that ends like a prompt, and banners longer than one and than two
\* buffers
Banners ==
    { << <<"out", Fill(3) \o DefaultPrompt>> >>,
      << <<"out", Fill(3) \o << ">" >> >>, <<"out", << " " >> >> >>,
      << <<"out", Fill(1) \o DefaultPrompt>>,
         <<"out", Fill(2) \o DefaultPrompt>> >>,
      << <<"out", Fill(BufferSize + 3) \o DefaultPrompt>> >>,
      << <<"out", Fill(2 * BufferSize + 3) \o DefaultPrompt>> >> }

\* a line written to ghci during the negotiation: ghci prints nothing for
\* it but the prompt that follows
Command(text) == [begin |-> text, input |-> << >>, end |-> "\n", n |-> 0]

\* lines 106-108 and line 111
SetPrompt == Command(":set prompt \"__ghci_rust_prompt__>\\n\"")
SetPromptCont == Command(":set prompt-cont \"\"")

\* the pattern each clear_blocking_reader_until call waits for (lines 103,
\* 109, 112) and where new goes when the call returns Ok
Gates ==
    [ gate1 |-> [expected_end |-> DefaultPrompt, next |-> "write1"],
      gate2 |-> [expected_end |-> PROMPT, next |-> "write2"],
      gate3 |-> [expected_end |-> PROMPT, next |-> "wrap"] ]

\* the command each write step sends and the gate that follows it
Writes ==
    [ write1 |-> [command |-> SetPrompt, next |-> "gate2"],
      write2 |-> [command |-> SetPromptCont, next |-> "gate3"] ]

\* the state after line 101: the child runs and has its banner to write
NewInit ==
    /\ sess = "creating"
    /\ pc = "gate1"
    /\ timeout = None
    /\ timeoutArg = -1
    /\ stdout = << >>
    /\ stderr = << >>
    /\ revents = NoEvents
    /\ result = NoResult
    /\ evalNo = 0
    /\ input = << >>
    /\ childStatus = "None"
    /\ closeResult = [res |-> "none", exited |-> FALSE]
    /\ proc = "running"
    /\ killSent = FALSE
    /\ \E b \in Banners : ghci = [todo |-> b, n |-> 0]
    /\ stdin = << >>
    /\ outPipe = << >>
    /\ errPipe = << >>
    /\ waited = 0
    /\ elapsed = 0
    /\ markerAt = -1
    /\ outSince = << >>
    /\ history = [allOk |-> TRUE, timedOut |-> FALSE, plain |-> TRUE]
    /\ buffer = << >>

\* new returns Err through a `?`: its locals, the Child and the three
\* pipes among them, are dropped; nothing is sent to the process
NewFails ==
    /\ sess' = "failed"
    /\ pc' = "idle"
    /\ result' = [res |-> "IOError", stdout |-> << >>, stderr |-> << >>, n |-> 0]
    /\ stdin' = << >>
    /\ outPipe' = << >>
    /\ errPipe' = << >>
    /\ UNCHANGED << childStatus, closeResult, killSent, proc >>

\* buffer[end..], the room left in the buffer
Room == BufferSize - Len(buffer)

\* r.read(&mut buffer[end..]): the number of bytes a read returns now
ReadBytes == IF Len(outPipe) < Room THEN Len(outPipe) ELSE Room

\* lines 308-316: one read of clear_blocking_reader_until that returns Ok.
\* The read blocks while the pipe is empty and the child has it open; it
\* returns 0 at end of file and when the buffer has no room left.
ClearRead ==
    /\ sess = "creating"
    /\ pc \in DOMAIN Gates
    /\ outPipe # << >> \/ Hup \/ Room = 0
    /\ buffer' = buffer \o SubSeq(outPipe, 1, ReadBytes)
    /\ outPipe' = SubSeq(outPipe, ReadBytes + 1, Len(outPipe))
    /\ pc' = IF ReadBytes = 0 \/ ends_with(Chars(buffer'), Gates[pc].expected_end)
             THEN Gates[pc].next
             ELSE pc
    /\ UNCHANGED << sessVars, timeout, timeoutArg, stdout, stderr, revents,
                    result, evalNo, input, history, proc, ghci, stdin, errPipe,
                    timeVars, ghostVars >>

\* line 319: a read fails with an error other than Interrupted
ClearFail ==
    /\ sess = "creating"
    /\ pc \in DOMAIN Gates
    /\ NewFails
    /\ UNCHANGED << gateVars, timeout, timeoutArg, stdout, stderr, revents,
                    evalNo, input, history, ghci, timeVars, ghostVars >>

\* lines 106-108 and line 111: a command is written and the next
\* clear_blocking_reader_until starts with an empty buffer; the write fails
\* with EPIPE when the child is gone
WriteCommand ==
    /\ sess = "creating"
    /\ pc \in DOMAIN Writes
    /\ IF Hup
       THEN /\ NewFails
            /\ UNCHANGED gateVars
       ELSE /\ stdin' = Append(stdin, Writes[pc].command)
            /\ pc' = Writes[pc].next
            /\ buffer' = << >>
            /\ UNCHANGED << sessVars, result, outPipe, errPipe, proc >>
    /\ UNCHANGED << timeout, timeoutArg, stdout, stderr, revents, evalNo,
                    input, history, ghci, timeVars, ghostVars >>

\* lines 114-122: both NonBlockingReader::from_fd calls succeed and the
\* value is returned with timeout: None
Wrap ==
    /\ sess = "creating"
    /\ pc = "wrap"
    /\ sess' = "Ready"
    /\ pc' = "idle"
    /\ timeout' = None
    /\ UNCHANGED << gateVars, childStatus, closeResult, killSent, timeoutArg,
                    stdout, stderr, revents, result, evalNo, input, history,
                    proc, childVars, timeVars, ghostVars >>

\* lines 117, 119: NonBlockingReader::from_fd fails
WrapFail ==
    /\ sess = "creating"
    /\ pc = "wrap"
    /\ NewFails
    /\ UNCHANGED << gateVars, timeout, timeoutArg, stdout, stderr, revents,
                    evalNo, input, history, ghci, timeVars, ghostVars >>

\* the child can read and write as long as the parent holds the pipes
NewNext ==
    \/ ClearRead
    \/ ClearFail
    \/ WriteCommand
    \/ Wrap
    \/ WrapFail
    \/ sess # "failed" /\ GhciRead
    \/ sess # "failed" /\ GhciWrite
    \/ sess # "failed" /\ GhciExit

NewSpec == NewInit /\ [][NewNext]_vars

(***************************************************************************)
(* The claims.                                                             *)
(***************************************************************************)
\* the latest eval call has returned
Returned == pc = "idle" /\ result.res # "none"

\* the text of the latest snippet's standard output holds no prompt
Plain == ~ Contains(StreamOf(input, "out"), PROMPT)

\* ghci has written the whole response to the latest eval call
Answered == ghci.n = evalNo /\ ghci.todo = << >>

\* C1: when eval returns Ok, its stderr is everything the child wrote to
\* standard error for the snippet and its stdout everything it wrote to
\* standard output before the prompt, whatever the interleaving.  Stated for
\* the first call on a session and a snippet that does not print the prompt.
C1_BothStreamsCaptured ==
    (Returned /\ result.res = "Ok" /\ evalNo = 1 /\ Plain) =>
        /\ Chars(result.stderr) = StreamOf(input, "err")
        /\ Chars(result.stdout) = StreamOf(input, "out")

\* C2: in a sequence of successful eval calls, every byte of the n-th
\* call's output was written by the child for the n-th snippet.  Stated for
\* snippets that do not print the prompt.
C2_NoByteFromEarlierCall ==
    (Returned /\ result.res = "Ok" /\ history.allOk /\ history.plain) =>
        /\ \A i \in 1..Len(result.stdout) : result.stdout[i].n = result.n
        /\ \A i \in 1..Len(result.stderr) : result.stderr[i].n = result.n

\* C3: when the child writes a text T to standard output, nothing to
\* standard error, and then the prompt, eval returns Ok with stdout = T and
\* stderr empty, however the bytes are split over the reads.  Stated for the
\* first call, no timeout, a text without the prompt, and a poll that does
\* not fail.
C3_StdoutOnlyIsExact ==
    ( /\ Returned
      /\ Answered
      /\ evalNo = 1
      /\ timeoutArg = -1
      /\ Plain
      /\ StreamOf(input, "err") = << >>
      /\ result.res # "PollError" ) =>
        /\ result.res = "Ok"
        /\ Chars(result.stdout) = StreamOf(input, "out")
        /\ result.stderr = << >>

\* ghci did not finish writing the prompt of the latest call within the
\* timeout of that call
PromptLate == markerAt = -1 \/ markerAt > timeoutArg

\* C4: with a timeout T configured, an eval call during which the child
\* does not write the prompt within T returns Timeout, also when the child
\* keeps writing output.  Stated for the first call, a snippet that does not
\* print the prompt, and calls that do not fail with IOError or PollError.
C4_TimeoutWhenPromptLate ==
    ( /\ Returned
      /\ evalNo = 1
      /\ Plain
      /\ timeoutArg >= 0
      /\ PromptLate
      /\ result.res \notin {"IOError", "PollError"} ) =>
        result.res = "Timeout"

\* C5 as claimed: once an eval call has returned Timeout, no later eval call
\* on the session returns Ok.
C5_NoOkAfterTimeout ==
    ~ (history.timedOut /\ Returned /\ result.res = "Ok")

\* C5: once an eval call has returned Timeout, a later eval call returns Ok
\* only if the child wrote the bytes of the prompt to its standard output
\* after that Timeout was returned.
C5_OkAfterTimeoutNeedsPrompt ==
    (history.timedOut /\ Returned /\ result.res = "Ok") =>
        Contains(outSince, PROMPT)

C5_Witness ==
    history.timedOut /\ Returned /\ result.res = "Ok" /\ result.stdout # << >>

\* the child exited during the latest eval call before it had written the
\* prompt of that call
ExitedBeforePrompt == pc # "idle" /\ Hup /\ markerAt = -1

\* C6: if the child's stdout or stderr is closed while eval is waiting for
\* output (the child exits before writing the prompt), eval returns
\* PollError.
C6_PollErrorWhenClosed ==
    ExitedBeforePrompt ~> (Returned /\ result.res = "PollError")

\* C7: with a finite timeout configured, every eval call eventually returns,
\* whatever the child does.
C7_EvalReturns ==
    (pc # "idle" /\ timeoutArg >= 0) ~> Returned

\* C8: close on a session whose child has already exited returns the
\* InvalidInput I/O error; close on a session whose child is running kills
\* the child and returns Ok.
C8_CloseResult ==
    closeResult.res # "none" =>
        IF closeResult.exited
        THEN closeResult.res = "InvalidInput"
        ELSE closeResult.res = "Ok" /\ killSent

\* C9: whenever the session value has been discarded, by close or by drop,
\* the child process has exited or has been sent a kill.
C9_DiscardedMeansKilled ==
    Discarded => (proc # "running" \/ killSent)

\* dropped without close after a timed-out eval, the running child killed
C9_Witness ==
    /\ sess = "gone"
    /\ closeResult.res = "none"
    /\ result.res = "Timeout"
    /\ killSent
    /\ proc = "running"

\* C10: the teardown run when the session is dropped never surfaces a
\* failure: a failing try_wait or kill is suppressed, not turned into a
\* panic.
C10_DropNeverPanics ==
    sess # "panicked"

\* what set_timeout must leave alone: the pipes to and from the child, the
\* accumulators of eval, the child handle and the process
SetTimeoutFrame ==
    << stdin, outPipe, errPipe, stdout, stderr, childStatus, proc, killSent,
       sess >>

\* C11: set_timeout changes only the timeout field: a step that changes the
\* field writes nothing to the child, reads nothing from either stream and
\* leaves the child handle as it was; the eval call that follows computes
\* its wait bound from the value of the field at that moment; a freshly
\* created session has no timeout.
C11_SetTimeoutChangesOnlyTimeout ==
    /\ timeout = None
    /\ [][ /\ (timeout' # timeout => UNCHANGED SetTimeoutFrame)
           /\ (evalNo' # evalNo => /\ timeoutArg' = PollTimeout(timeout)
                                   /\ timeout' = timeout) ]_vars

\* a timeout of one millisecond was set and the eval call after it waits
\* with that bound
C11_Witness ==
    /\ timeout = Some(Duration(0, 1))
    /\ pc = "poll"
    /\ timeoutArg = 1

\* the step on which the running eval call returns res
Returns(res) == pc # "idle" /\ pc' = "idle" /\ result'.res = res

\* the accumulator of stdout once what the pipe holds has been read into it
Accumulated == stdout \o outPipe

\* C12: eval returns Ok only from an iteration in which stdout was reported
\* ready and read, and the accumulator then ends with the prompt; the stdout
\* it returns is that accumulator without its last Len(PROMPT) bytes, which
\* are the prompt: nothing else is removed, nothing is added.
C12_OkOnlyOnTrailingPrompt ==
    [][ Returns("Ok") =>
          /\ pc = "readOut"
          /\ revents.out
          /\ ends_with(Chars(Accumulated), PROMPT)
          /\ Len(result'.stdout) = Len(Accumulated) - Len(PROMPT)
          /\ \A i \in 1..Len(result'.stdout) :
                result'.stdout[i] = Accumulated[i]
          /\ result'.stderr = stderr ]_vars

\* the documentation's example answered in full: both streams were read
\* and the prompt taken off the end of stdout
C12_Witness ==
    /\ Returned
    /\ result.res = "Ok"
    /\ Chars(result.stdout) = << "a", "b" >>
    /\ Chars(result.stderr) = << "e" >>

\* C13: eval returns Timeout exactly when a poll returned with no
\* descriptor ready: it returns Timeout only from a poll whose timeout has
\* run out while neither pipe had anything to report, and every poll that
\* returns 0 makes it return Timeout; while the session has no timeout, eval
\* never returns Timeout.
C13_TimeoutIffPollZero ==
    [][ /\ Returns("Timeout") =>
              /\ pc = "poll"
              /\ ~ Ready(errPipe)
              /\ ~ Ready(outPipe)
              /\ timeoutArg >= 0
              /\ waited >= timeoutArg
              /\ timeout # None
        /\ PollZero => Returns("Timeout") ]_vars

\* a first call with a timeout of one millisecond has returned Timeout
C13_Witness ==
    /\ Returned
    /\ result.res = "Timeout"
    /\ evalNo = 1
    /\ timeout = Some(Duration(0, 1))
    /\ elapsed >= 1

\* C14: while an eval call runs on a session with a timeout, the bound it
\* hands to poll is that duration in whole milliseconds, whatever the
\* duration is; the bound is -1, wait for ever, only when the session has no
\* timeout.  (The value is compared for the durations whose milliseconds
\* can be written in 32 bits; for the others the bound must still not be -1.)
C14_WaitBoundIsDuration ==
    (pc # "idle" /\ timeout # None) =>
        /\ timeoutArg # -1
        /\ FitsI32(timeout[1]) => timeoutArg = as_millis(timeout[1])

\* the thread moves inside eval (the child's steps leave pc alone)
ThreadStep == sess' = "Ready" /\ pc # "idle" /\ pc' # pc

\* C15: in one iteration of eval's loop, a stderr that poll reported is
\* read first, and read empty, with stdout untouched meanwhile; a stdout
\* that poll reported is then read empty; the next poll starts only after
\* that; what is read is appended to the call's accumulator of that stream
\* in the order it came out of the pipe.
C15_DrainOrder ==
    [][ ThreadStep =>
          /\ (pc = "poll" /\ pc' # "idle") =>
                /\ revents' = [err |-> Ready(errPipe), out |-> Ready(outPipe)]
                /\ pc' = IF revents'.err THEN "readErr" ELSE "readOut"
                /\ UNCHANGED << errPipe, outPipe, stdout, stderr >>
          /\ (pc = "readErr" /\ pc' # "idle") =>
                /\ revents.err
                /\ pc' = "readOut"
                /\ errPipe' = << >>
                /\ stderr' = stderr \o errPipe
                /\ UNCHANGED << outPipe, stdout, revents >>
          /\ (pc = "readOut" /\ pc' # "idle") =>
                /\ pc' = "poll"
                /\ IF revents.out
                   THEN outPipe' = << >> /\ stdout' = stdout \o outPipe
                   ELSE UNCHANGED << outPipe, stdout >>
                /\ UNCHANGED << errPipe, stderr >> ]_vars

\* poll reported both streams, stderr has been read and stdout is next
C15_Witness ==
    /\ pc = "readOut"
    /\ revents.err
    /\ revents.out
    /\ stderr # << >>
    /\ outPipe # << >>

\* the step on which an eval call starts
Called == evalNo' = evalNo + 1

\* C16: an eval call puts on the child's input ":{\n", the snippet as it
\* was given and "\n:}\n", in this order, all of it before the first poll,
\* and nothing else for as long as the call runs; when the write fails the
\* call returns IOError at once, and neither pipe from the child is read.
C16_FramedSnippetWritten ==
    [][ /\ (Called /\ ~ Hup) =>
              /\ pc' = "poll"
              /\ Len(stdin') = Len(stdin) + 1
              /\ SubSeq(stdin', 1, Len(stdin)) = stdin
              /\ stdin'[Len(stdin')].begin = ":{\n"
              /\ stdin'[Len(stdin')].input = input'
              /\ stdin'[Len(stdin')].end = "\n:}\n"
        /\ (Called /\ Hup) =>
              /\ pc' = "idle"
              /\ result'.res = "IOError"
              /\ UNCHANGED << stdin, outPipe, errPipe >>
        /\ Len(stdin') > Len(stdin) => Called
        /\ ThreadStep => stdin' = stdin ]_vars

\* the first call is in its first poll and the framed snippet is on the
\* child's input
C16_Witness ==
    /\ evalNo = 1
    /\ pc = "poll"
    /\ Len(stdin) = 1
    /\ stdin[1].begin = ":{\n"
    /\ stdin[1].input = input
    /\ stdin[1].end = "\n:}\n"

\* the step on which a clear_blocking_reader_until call returns Ok
ClearReturnsOk == pc \in DOMAIN Gates /\ pc' = Gates[pc].next

\* C17: a clear_blocking_reader_until call returns Ok only when the bytes it
\* has read end with the pattern it was given; not at end of file, not when
\* its buffer is full.
C17_OkOnlyOnPattern ==
    [][ ClearReturnsOk =>
          ends_with(Chars(buffer'), Gates[pc].expected_end) ]_vars

\* new has returned a session
Created == sess = "Ready" /\ pc = "idle" /\ evalNo = 0

\* C18: when new returns a session, the third clear_blocking_reader_until
\* has seen the prompt at the end of what it read, the child has read both
\* commands and written all it had to write, and none of it is left in the
\* pipe: the first eval call starts with a clean standard output.
C18_NegotiationComplete ==
    Created =>
        /\ ends_with(Chars(buffer), PROMPT)
        /\ stdin = << >>
        /\ ghci.todo = << >>
        /\ outPipe = << >>

\* what the child has written or will write to standard output for call n
\* and the session has not read
Unread(n) ==
    Chars(SelectSeq(outPipe, LAMBDA b : b.n = n))
        \o (IF ghci.n = n THEN StreamOf(ghci.todo, "out") ELSE << >>)

\* the prompt that ends the response to the latest call is still to be
\* read, whole: the child has not read the snippet yet, or what is unread
\* of its response ends with the prompt
MarkerUnread ==
    \/ \E i \in 1..Len(stdin) : stdin[i].n = evalNo
    \/ ends_with(Unread(evalNo), PROMPT)

\* C19: when eval has returned IOError or PollError, the call has read no
\* byte of the prompt that ends the response to it, and the error comes
\* with no stdout or stderr text.  Stated while the child is alive and the
\* session has not been closed or dropped.
C19_ErrorLeavesMarker ==
    ( /\ Returned
      /\ result.res \in {"IOError", "PollError"}
      /\ sess = "Ready"
      /\ proc = "running" ) =>
        /\ result.stdout = << >>
        /\ result.stderr = << >>
        /\ MarkerUnread

\* C20: when new fails after the spawn, the child has exited or has been
\* sent a kill.
C20_FailedNewLeavesNoChild ==
    sess = "failed" => (proc # "running" \/ killSent)

=============================================================================
